---- MODULE Spec2Model ----
(***************************************************************************)
(* Leave-management backend (src/main.py, src/schemas.py).                 *)
(*                                                                         *)
(* The durable state is two MongoDB collections, db["user"] and            *)
(* db["leave"]; every HTTP request is an independent unit of work that     *)
(* touches them through single find_one / insert_one / update_one /        *)
(* count_documents / aggregate calls.  A request is modelled as a process  *)
(* whose steps are exactly those store calls: the local computation that   *)
(* follows a store call (role checks, date parsing, building a document)   *)
(* is folded into the step of the store call before it, since it reads no  *)
(* shared state.  The wall clock (datetime.utcnow) is the variable now.    *)
(***************************************************************************)
EXTENDS Naturals, Sequences, FiniteSets

\* ------------------------------------------------------------------ bounds

\* Largest number of documents the leave collection is let grow to.
MaxLeaves == 2
\* Largest number of documents the user collection is let grow to.
MaxUsers == 2
\* Largest reading of the wall clock.
MaxTime == 1

\* Request slots: how many requests may be in flight at once.
Procs == {1, 2}

\* ------------------------------------------------------------ plain values

\* Python's None (an absent header, an unset Optional field) and a present
\* value of an Optional text or timestamp field.  Tokens and id texts are
\* tuples already and are stored bare.
None == <<>>

Some(x) == <<x>>

Roles == {"student", "faculty", "admin"}

\* hashlib.sha256(...).hexdigest(), taken as injective: the digest is
\* represented by its tagged preimage.
sha256(x) == <<"sha256", x>>

hash_password(pw) == sha256(pw)

\* Mutant of make_token: the text hashed holds neither field.
make_token_of_separator(email, password_hash) == sha256(<<":">>)

\* The text f"{email}:{password_hash}" is represented by the pair.
make_token(email, password_hash) == sha256(<<email, ":", password_hash>>)

\* str(ObjectId): the 24-digit hex text of the n-th ObjectId of a collection.
ObjectIdStr(n) == <<"oid", n>>

\* What bson.ObjectId(text) raises on a text that is no 24-digit hex string.
InvalidId == 0

\* A text that is no valid ObjectId.
MalformedId == <<"text", "not-an-oid">>

\* bson.ObjectId(text): the id the text denotes, or InvalidId.
ObjectId(text) == IF text[1] = "oid" THEN text[2] ELSE InvalidId

\* Calendar dates are day numbers; a date text is the tagged day number, or a
\* text datetime.fromisoformat rejects.
BadDate == 0

IsoDate(d) == <<"iso", d>>

MalformedDate == <<"text", "03/01/2024">>

\* datetime.fromisoformat(text).date(): the day, or BadDate when it raises.
fromisoformat(text) == IF text[1] = "iso" THEN text[2] ELSE BadDate

\* ------------------------------------------------------------ request inputs

\* POST /auth/register bodies the model draws from.  Eve reuses Ann's email
\* with another password and role.
Ann == [name |-> "Ann", email |-> "ann@x", password |-> "pa", role |-> "student", department |-> None]

Bob == [name |-> "Bob", email |-> "bob@x", password |-> "pb", role |-> "faculty", department |-> None]

Cat == [name |-> "Cat", email |-> "cat@x", password |-> "pc", role |-> "admin", department |-> None]

Eve == [name |-> "Eve", email |-> "ann@x", password |-> "pe", role |-> "admin", department |-> None]

RegisterPayloads == {Ann, Bob, Cat, Eve}

\* POST /auth/login bodies: every registered pair, and a wrong password.
LoginPayloads ==
    { [email |-> r.email, password |-> r.password] : r \in RegisterPayloads }
        \cup { [email |-> "ann@x", password |-> "pb"] }

\* X-Token header values: absent, or the token of some register payload.
HeaderTokens ==
    {None} \cup { make_token(r.email, hash_password(r.password)) : r \in RegisterPayloads }

\* start_date / end_date texts of POST /leaves/apply.
DateTexts == {IsoDate(1), IsoDate(3), MalformedDate}

\* POST /leaves/apply bodies.  reason, type and attachment_url are copied into
\* the document unread, so one value of each is drawn.
ApplyPayload(s, e) ==
    [reason |-> "flu", type |-> "sick", start_date |-> s, end_date |-> e, attachment_url |-> None]

ApplyPayloads == { ApplyPayload(s, e) : s \in DateTexts, e \in DateTexts }

\* The bodies drawn where the dates are not what is examined: the spec's
\* scenario 2024-01-01..2024-01-03, and the same with the dates swapped.
BriefApplyPayloads == { ApplyPayload(IsoDate(1), IsoDate(3)), ApplyPayload(IsoDate(3), IsoDate(1)) }

\* POST /leaves/{leave_id}/decide bodies (schema: status is approved or
\* rejected, comment optional).
DecisionPayloads ==
    { [status |-> "approved", comment |-> None], [status |-> "rejected", comment |-> Some("no")] }

\* leave_id path texts: the ids the collection can hold, one past them, and a
\* text that is no ObjectId.
LeaveIdTexts == { ObjectIdStr(n) : n \in 1..(MaxLeaves + 1) } \cup {MalformedId}

\* --------------------------------------------------------------- the state

VARIABLES users, leaves, now, req, resp, decided, logins, firstToken

\* users      db["user"]: the documents in insertion order; _id is the position
\* leaves     db["leave"]: the documents in insertion order
\* now        datetime.utcnow()
\* req        per request slot: the handler running there and its locals
\* resp       the response the last step sent, until it is delivered
\* decided    history: the leave _ids on which a decide request returned ok
\* logins     history: per user _id, how many logins returned a token
\* firstToken history: per user _id, the token the first login returned
vars == <<users, leaves, now, req, resp, decided, logins, firstToken>>

\* ------------------------------------------------------------- store: user

\* UserSchema(...).model_dump(): no _token field until the first login.
UserDoc(p) ==
    [name |-> p.name, email |-> p.email, password_hash |-> hash_password(p.password),
     role |-> p.role, department |-> p.department, is_active |-> TRUE, _token |-> None]

\* db["user"].find_one(query): of the positions matching the query the first
\* one, 0 if none.
find_one(matches) ==
    IF matches = {} THEN 0 ELSE CHOOSE i \in matches : \A j \in matches : i <= j

\* db["user"].find_one({"email": email})
find_user_by_email(us, email) ==
    find_one({ i \in 1..Len(us) : us[i].email = email })

\* db["user"].find_one({"_token": token}); a document without the _token
\* field never matches.
find_user_by_token(us, token) ==
    find_one({ i \in 1..Len(us) : us[i]._token # None /\ us[i]._token = token })

NoUser == [id |-> 0, name |-> "", role |-> ""]

\* Mutant of auth_user: the user is found by recomputing each user's token,
\* not by the stored _token.
auth_user_recomputed(us, token) ==
    LET i == find_one({ k \in 1..Len(us) : make_token(us[k].email, us[k].password_hash) = token }) IN
    IF token = None \/ i = 0
    THEN [status |-> 401, user |-> NoUser]
    ELSE [status |-> 200, user |-> [id |-> i, name |-> us[i].name, role |-> us[i].role]]

\* auth_user: 401 on a missing (or empty) header and on a token no document
\* stores; else the found document, of which the handlers read _id, name, role.
auth_user(us, token) ==
    IF token = None
    THEN [status |-> 401, user |-> NoUser]
    ELSE LET i == find_user_by_token(us, token) IN
         IF i = 0
         THEN [status |-> 401, user |-> NoUser]
         ELSE [status |-> 200, user |-> [id |-> i, name |-> us[i].name, role |-> us[i].role]]

\* ------------------------------------------------------------ store: leave

\* Mutant of LeaveDoc: the applicant's role is not taken from the caller.
LeaveDocAsStudent(user, payload, start, end, t) ==
    [_id |-> 0,
     applicant_id |-> ObjectIdStr(user.id), applicant_name |-> user.name,
     applicant_role |-> "student",
     reason |-> payload.reason, type |-> payload.type,
     start_date |-> start, end_date |-> end, attachment_url |-> payload.attachment_url,
     status |-> "pending",
     decided_by_id |-> None, decided_by_name |-> None, decided_by_role |-> None,
     decision_comment |-> None,
     submitted_at |-> t, decided_at |-> None]

\* LeaveSchema(...).model_dump() as apply_leave builds it; _id is given by
\* insert_one.
LeaveDoc(user, payload, start, end, t) ==
    [_id |-> 0,
     applicant_id |-> ObjectIdStr(user.id), applicant_name |-> user.name,
     applicant_role |-> user.role,
     reason |-> payload.reason, type |-> payload.type,
     start_date |-> start, end_date |-> end, attachment_url |-> payload.attachment_url,
     status |-> "pending",
     decided_by_id |-> None, decided_by_name |-> None, decided_by_role |-> None,
     decision_comment |-> None,
     submitted_at |-> t, decided_at |-> None]

\* db["leave"].insert_one(doc): appended under a fresh _id.
insert_leave(ls, doc) == Append(ls, [doc EXCEPT !._id = Len(ls) + 1])

\* db["leave"].find_one({"_id": oid}): the position, 0 if none.
find_leave(ls, oid) ==
    IF \E i \in 1..Len(ls) : ls[i]._id = oid
    THEN CHOOSE i \in 1..Len(ls) : ls[i]._id = oid
    ELSE 0

\* The $set document decide_leave builds.
DecisionUpdate(user, payload, t) ==
    [status |-> payload.status,
     decided_by_id |-> ObjectIdStr(user.id), decided_by_name |-> Some(user.name),
     decided_by_role |-> Some(user.role),
     decision_comment |-> payload.comment, decided_at |-> Some(t)]

\* Mutant of SetFields: decided_at is not written.
SetFieldsButTime(d, u) ==
    [d EXCEPT !.status = u.status,
              !.decided_by_id = u.decided_by_id, !.decided_by_name = u.decided_by_name,
              !.decided_by_role = u.decided_by_role,
              !.decision_comment = u.decision_comment]

\* {"$set": update} on one document.
SetFields(d, u) ==
    [d EXCEPT !.status = u.status,
              !.decided_by_id = u.decided_by_id, !.decided_by_name = u.decided_by_name,
              !.decided_by_role = u.decided_by_role,
              !.decision_comment = u.decision_comment, !.decided_at = u.decided_at]

\* db["leave"].update_one({"_id": oid}, {"$set": update}).
update_leave(ls, oid, u) ==
    [i \in 1..Len(ls) |-> IF ls[i]._id = oid THEN SetFields(ls[i], u) ELSE ls[i]]

\* Mutant of SortedDesc: the sort is ascending.
SortedAsc(ls, M) ==
    { s \in [1..Cardinality(M) -> M] :
        /\ \A a, b \in 1..Cardinality(M) : a # b => s[a] # s[b]
        /\ \A a, b \in 1..Cardinality(M) : a < b => ls[s[a]].submitted_at <= ls[s[b]].submitted_at }

\* .sort("submitted_at", -1): every order of the matches that is descending
\* in submitted_at; the order among equal timestamps is the store's choice.
SortedDesc(ls, M) ==
    { s \in [1..Cardinality(M) -> M] :
        /\ \A a, b \in 1..Cardinality(M) : a # b => s[a] # s[b]
        /\ \A a, b \in 1..Cardinality(M) : a < b => ls[s[a]].submitted_at >= ls[s[b]].submitted_at }

\* i["id"] = str(i["_id"]); i.pop("_id").
LeaveItem(d) ==
    [id |-> ObjectIdStr(d._id),
     applicant_id |-> d.applicant_id, applicant_name |-> d.applicant_name,
     applicant_role |-> d.applicant_role,
     reason |-> d.reason, type |-> d.type,
     start_date |-> d.start_date, end_date |-> d.end_date, attachment_url |-> d.attachment_url,
     status |-> d.status,
     decided_by_id |-> d.decided_by_id, decided_by_name |-> d.decided_by_name,
     decided_by_role |-> d.decided_by_role,
     decision_comment |-> d.decision_comment,
     submitted_at |-> d.submitted_at, decided_at |-> d.decided_at]

Items(ls, s) == [k \in 1..Len(s) |-> LeaveItem(ls[s[k]])]

\* ----------------------------------------------------------- request slots

\* A slot with no request in it.  A running request keeps here what its
\* handler holds between two store calls; status is the HTTP status, 0 while
\* the handler runs.
\*   arg   the request: path parameter and body
\*   loc   the handler's local between two store calls
\*   body  the response body
Idle ==
    [op |-> "none", pc |-> "idle", token |-> None, user |-> NoUser,
     arg |-> None, loc |-> None, status |-> 0, body |-> None]

\* A request arrives in the first free slot (which slot holds a request is
\* bookkeeping), once the last response has been delivered.
Free(p) ==
    /\ req[p].pc = "idle"
    /\ resp.op = "none"
    /\ \A q \in Procs : q < p => req[q].pc # "idle"

\* raise HTTPException(status_code = code).
Raise(r, code) == [r EXCEPT !.pc = "done", !.status = code]

\* return body (HTTP 200).
Return(r, body) == [r EXCEPT !.pc = "done", !.status = 200, !.body = body]

\* Slot p goes on with r, or r is the answer and the slot is free again.
Step(p, r) ==
    IF r.pc = "done"
    THEN req' = [req EXCEPT ![p] = Idle] /\ resp' = r
    ELSE req' = [req EXCEPT ![p] = r] /\ resp' = resp

Running(p, op, pc) == req[p].op = op /\ req[p].pc = pc /\ resp.op = "none"

\* The response reaches the client.
Deliver ==
    /\ resp.op # "none"
    /\ resp' = Idle
    /\ UNCHANGED <<users, leaves, now, req, decided, logins, firstToken>>

\* The request arrives and Depends(auth_user) runs (its one store read that
\* matters, find_one({"_token": token})); a failure answers 401 before the
\* handler sees the request.
Arrive(op, token, us) ==
    LET a == auth_user(us, token) IN
    [Idle EXCEPT !.op = op, !.pc = IF a.status = 200 THEN "authed" ELSE "done",
                 !.token = token, !.user = a.user,
                 !.status = IF a.status = 200 THEN 0 ELSE a.status]

\* ------------------------------------------------------- POST /leaves/apply

\* Mutant of apply_leave_checks: the caller's role is not checked.
apply_leave_checks_any_role(r, t) ==
    LET start == fromisoformat(r.arg.start_date)
        end == fromisoformat(r.arg.end_date)
    IN  IF start = BadDate \/ end = BadDate THEN Raise(r, 400)
        ELSE IF end < start THEN Raise(r, 400)
        ELSE [r EXCEPT !.pc = "insert", !.loc = LeaveDoc(r.user, r.arg, start, end, t)]

\* Mutant of apply_leave_checks: end_date is not compared with start_date.
apply_leave_checks_any_order(r, t) ==
    LET start == fromisoformat(r.arg.start_date)
        end == fromisoformat(r.arg.end_date)
    IN  IF r.user.role \notin {"student", "faculty"} THEN Raise(r, 403)
        ELSE IF start = BadDate \/ end = BadDate THEN Raise(r, 400)
        ELSE [r EXCEPT !.pc = "insert", !.loc = LeaveDoc(r.user, r.arg, start, end, t)]

\* apply_leave after authentication, up to the insert_one call.
apply_leave_checks(r, t) ==
    LET start == fromisoformat(r.arg.start_date)
        end == fromisoformat(r.arg.end_date)
    IN  IF r.user.role \notin {"student", "faculty"} THEN Raise(r, 403)
        ELSE IF start = BadDate \/ end = BadDate THEN Raise(r, 400)
        ELSE IF end < start THEN Raise(r, 400)
        ELSE [r EXCEPT !.pc = "insert", !.loc = LeaveDoc(r.user, r.arg, start, end, t)]

\* Inserts that are already on their way to the store.
PendingInserts == Cardinality({ q \in Procs : req[q].op = "apply_leave" /\ req[q].pc = "insert" })

\* An apply that passes its checks is admitted only while the collection has
\* room for its document (the model's bound on the collection).
ApplyLeaveWith(p, payloads) ==
    /\ Free(p)
    /\ \E token \in HeaderTokens :
         LET a == Arrive("apply_leave", token, users) IN
         IF a.status = 401 THEN Step(p, a)
         ELSE \E payload \in payloads :
                LET r == apply_leave_checks([a EXCEPT !.arg = payload], now) IN
                /\ r.pc = "insert" => Len(leaves) + PendingInserts < MaxLeaves
                /\ Step(p, r)
    /\ UNCHANGED <<users, leaves, now, decided, logins, firstToken>>

ApplyLeave(p) == ApplyLeaveWith(p, ApplyPayloads)

ApplyLeaveBrief(p) == ApplyLeaveWith(p, BriefApplyPayloads)

ApplyLeaveInsert(p) ==
    /\ Running(p, "apply_leave", "insert")
    /\ leaves' = insert_leave(leaves, req[p].loc)
    /\ Step(p, Return(req[p], [ok |-> TRUE, id |-> ObjectIdStr(Len(leaves) + 1)]))
    /\ UNCHANGED <<users, now, decided, logins, firstToken>>

\* ---------------------------------------------------------- GET /leaves/my

MyLeaves(p) ==
    /\ Free(p)
    /\ \E token \in HeaderTokens :
         LET a == Arrive("my_leaves", token, users) IN
         Step(p, IF a.status = 401 THEN a ELSE [a EXCEPT !.pc = "find"])
    /\ UNCHANGED <<users, leaves, now, decided, logins, firstToken>>

\* Mutant of my_leaves_query: no filter on the applicant.
my_leaves_query_all(r, d) == TRUE

\* {"applicant_id": str(user["_id"])}
my_leaves_query(r, d) == d.applicant_id = ObjectIdStr(r.user.id)

MyLeavesFind(p) ==
    /\ Running(p, "my_leaves", "find")
    /\ \E s \in SortedDesc(leaves, { i \in 1..Len(leaves) : my_leaves_query(req[p], leaves[i]) }) :
         Step(p, Return(req[p], Items(leaves, s)))
    /\ UNCHANGED <<users, leaves, now, decided, logins, firstToken>>

\* ----------------------------------------------------- GET /leaves/pending

pending_leaves_checks(r) ==
    IF r.user.role = "student" THEN Raise(r, 403) ELSE [r EXCEPT !.pc = "find"]

PendingLeaves(p) ==
    /\ Free(p)
    /\ \E token \in HeaderTokens :
         LET a == Arrive("pending_leaves", token, users) IN
         Step(p, IF a.status = 401 THEN a ELSE pending_leaves_checks(a))
    /\ UNCHANGED <<users, leaves, now, decided, logins, firstToken>>

\* Mutant of pending_leaves_query: faculty sees every pending leave.
pending_leaves_query_unscoped(r, d) == d.status = "pending"

\* {"status": "pending"}, and for faculty also {"applicant_role": "student"}
pending_leaves_query(r, d) ==
    /\ d.status = "pending"
    /\ r.user.role = "faculty" => d.applicant_role = "student"

PendingLeavesFind(p) ==
    /\ Running(p, "pending_leaves", "find")
    /\ \E s \in SortedDesc(leaves, { i \in 1..Len(leaves) : pending_leaves_query(req[p], leaves[i]) }) :
         Step(p, Return(req[p], Items(leaves, s)))
    /\ UNCHANGED <<users, leaves, now, decided, logins, firstToken>>

\* ------------------------------------------- POST /leaves/{leave_id}/decide

\* The role check, and ObjectId(leave_id) evaluated for the find_one call:
\* InvalidId is an unhandled exception, HTTP 500.
decide_leave_role_check(r) ==
    IF r.user.role \notin {"faculty", "admin"} THEN Raise(r, 403)
    ELSE IF ObjectId(r.arg.leave_id) = InvalidId THEN Raise(r, 500)
    ELSE [r EXCEPT !.pc = "find"]

DecideLeave(p) ==
    /\ Free(p)
    /\ \E token \in HeaderTokens :
         LET a == Arrive("decide_leave", token, users) IN
         IF a.status = 401 THEN Step(p, a)
         ELSE \E leave_id \in LeaveIdTexts, payload \in DecisionPayloads :
                Step(p, decide_leave_role_check(
                          [a EXCEPT !.arg = [leave_id |-> leave_id, payload |-> payload]]))
    /\ UNCHANGED <<users, leaves, now, decided, logins, firstToken>>

\* Mutant of decide_leave_find: the status check is left out.
decide_leave_find_any_status(r, ls, t) ==
    LET i == find_leave(ls, ObjectId(r.arg.leave_id))
    IN  IF i = 0 THEN Raise(r, 404)
        ELSE IF r.user.role = "faculty" /\ ls[i].applicant_role # "student"
             THEN Raise([r EXCEPT !.loc = [leave |-> ls[i], update |-> None]], 403)
        ELSE [r EXCEPT !.pc = "update",
                       !.loc = [leave |-> ls[i], update |-> DecisionUpdate(r.user, r.arg.payload, t)]]

\* Mutant of decide_leave_find: faculty may decide any leave.
decide_leave_find_any_applicant(r, ls, t) ==
    LET i == find_leave(ls, ObjectId(r.arg.leave_id))
    IN  IF i = 0 THEN Raise(r, 404)
        ELSE IF ls[i].status # "pending"
             THEN Raise([r EXCEPT !.loc = [leave |-> ls[i], update |-> None]], 400)
        ELSE [r EXCEPT !.pc = "update",
                       !.loc = [leave |-> ls[i], update |-> DecisionUpdate(r.user, r.arg.payload, t)]]

\* find_one and the checks on the document read, up to the update_one call.
decide_leave_find(r, ls, t) ==
    LET i == find_leave(ls, ObjectId(r.arg.leave_id))
    IN  IF i = 0 THEN Raise(r, 404)
        ELSE IF ls[i].status # "pending"
             THEN Raise([r EXCEPT !.loc = [leave |-> ls[i], update |-> None]], 400)
        ELSE IF r.user.role = "faculty" /\ ls[i].applicant_role # "student"
             THEN Raise([r EXCEPT !.loc = [leave |-> ls[i], update |-> None]], 403)
        ELSE [r EXCEPT !.pc = "update",
                       !.loc = [leave |-> ls[i], update |-> DecisionUpdate(r.user, r.arg.payload, t)]]

DecideLeaveFind(p) ==
    /\ Running(p, "decide_leave", "find")
    /\ Step(p, decide_leave_find(req[p], leaves, now))
    /\ UNCHANGED <<users, leaves, now, decided, logins, firstToken>>

\* update_one({"_id": leave["_id"]}, {"$set": update}): no condition on status.
decide_leave_update(ls, r) == update_leave(ls, r.loc.leave._id, r.loc.update)

DecideLeaveUpdate(p) ==
    /\ Running(p, "decide_leave", "update")
    /\ leaves' = decide_leave_update(leaves, req[p])
    /\ Step(p, Return(req[p], [ok |-> TRUE]))
    /\ decided' = decided \cup {req[p].loc.leave._id}
    /\ UNCHANGED <<users, now, logins, firstToken>>

\* ----------------------------------------------------- GET /stats/overview

\* Mutant of base_filter: a student is scoped like a faculty caller, and a
\* faculty caller is not scoped.
base_filter_by_role(r, d) ==
    r.user.role = "student" => d.applicant_role = "student"

\* base_filter: the caller's scope.
base_filter(r, d) ==
    /\ r.user.role = "student" => d.applicant_id = ObjectIdStr(r.user.id)
    /\ r.user.role = "faculty" => d.applicant_role = "student"

\* count_documents({"status": st, **base_filter}); st = None counts them all.
count_documents(ls, r, st) ==
    Cardinality({ i \in 1..Len(ls) : base_filter(r, ls[i]) /\ (st # None => ls[i].status = st[1]) })

StatsOverview(p) ==
    /\ Free(p)
    /\ \E token \in HeaderTokens :
         LET a == Arrive("stats_overview", token, users) IN
         Step(p, IF a.status = 401 THEN a ELSE [a EXCEPT !.pc = "total", !.loc = <<>>])
    /\ UNCHANGED <<users, leaves, now, decided, logins, firstToken>>

\* The four count_documents calls, one store read each, in the code's order;
\* loc collects the counts read so far.
StatsNext(pc) ==
    CASE pc = "total" -> "pending" [] pc = "pending" -> "approved"
      [] pc = "approved" -> "rejected" [] pc = "rejected" -> "aggregate"

StatsStatus(pc) == IF pc = "total" THEN None ELSE Some(pc)

StatsCount(p) ==
    /\ req[p].op = "stats_overview" /\ req[p].pc \in {"total", "pending", "approved", "rejected"}
    /\ resp.op = "none"
    /\ Step(p, [req[p] EXCEPT !.loc = Append(@, count_documents(leaves, req[p], StatsStatus(req[p].pc))),
                              !.pc = StatsNext(@)])
    /\ UNCHANGED <<users, leaves, now, decided, logins, firstToken>>

\* The clock counts half months from the second half of December 2024.
Year(t) == 2024 + ((t + 23) \div 24)

Month(t) == (((t + 23) \div 2) % 12) + 1

\* f"{y}-{m:02d}": the text is represented by the pair it prints.
MonthKey(y, m) == <<"ym", y, m>>

\* Mutant of AggregateRows: the rows are sorted by month alone.
AggregateRowsByMonthAlone(ls, r) ==
    LET M == { i \in 1..Len(ls) : base_filter(r, ls[i]) /\ ls[i].status \in {"approved", "rejected"} }
        G == { <<Year(ls[i].decided_at[1]), Month(ls[i].decided_at[1])>> : i \in M }
        Count(g) == Cardinality({ i \in M : <<Year(ls[i].decided_at[1]), Month(ls[i].decided_at[1])>> = g })
        Before(g, h) == g[2] < h[2] \/ (g[2] = h[2] /\ g[1] < h[1])
        Rank(g) == Cardinality({ h \in G : Before(h, g) }) + 1
    IN  [k \in 1..Cardinality(G) |->
           LET g == CHOOSE g \in G : Rank(g) = k IN [y |-> g[1], m |-> g[2], count |-> Count(g)]]

\* Mutant of AggregateRows: $match keeps the approved leaves only.
AggregateRowsOfApproved(ls, r) ==
    LET M == { i \in 1..Len(ls) : base_filter(r, ls[i]) /\ ls[i].status = "approved" }
        G == { <<Year(ls[i].decided_at[1]), Month(ls[i].decided_at[1])>> : i \in M }
        Count(g) == Cardinality({ i \in M : <<Year(ls[i].decided_at[1]), Month(ls[i].decided_at[1])>> = g })
        Before(g, h) == g[1] < h[1] \/ (g[1] = h[1] /\ g[2] < h[2])
        Rank(g) == Cardinality({ h \in G : Before(h, g) }) + 1
    IN  [k \in 1..Cardinality(G) |->
           LET g == CHOOSE g \in G : Rank(g) = k IN [y |-> g[1], m |-> g[2], count |-> Count(g)]]

\* $match, $group by ($year, $month) of decided_at, $sort by year then month:
\* the rows [y, m, count] in that order.
AggregateRows(ls, r) ==
    LET M == { i \in 1..Len(ls) : base_filter(r, ls[i]) /\ ls[i].status \in {"approved", "rejected"} }
        G == { <<Year(ls[i].decided_at[1]), Month(ls[i].decided_at[1])>> : i \in M }
        Count(g) == Cardinality({ i \in M : <<Year(ls[i].decided_at[1]), Month(ls[i].decided_at[1])>> = g })
        Before(g, h) == g[1] < h[1] \/ (g[1] = h[1] /\ g[2] < h[2])
        Rank(g) == Cardinality({ h \in G : Before(h, g) }) + 1
    IN  [k \in 1..Cardinality(G) |->
           LET g == CHOOSE g \in G : Rank(g) = k IN [y |-> g[1], m |-> g[2], count |-> Count(g)]]

\* by_month after the loop has consumed the first n rows: key and count in
\* insertion order.
ByMonth(rows, n) == [k \in 1..n |-> <<MonthKey(rows[k].y, rows[k].m), rows[k].count>>]

\* The aggregate call and the loop over its cursor.  The store may raise at the
\* call or while the cursor is read; except Exception: pass keeps what the loop
\* had stored by then.  raised is history: whether it raised.
StatsAggregate(p) ==
    /\ Running(p, "stats_overview", "aggregate")
    /\ LET rows == AggregateRows(leaves, req[p]) IN
       \E n \in 0..Len(rows), raised \in BOOLEAN :
         /\ ~raised => n = Len(rows)
         /\ Step(p, Return(req[p], [total |-> req[p].loc[1], pending |-> req[p].loc[2],
                                    approved |-> req[p].loc[3], rejected |-> req[p].loc[4],
                                    by_month |-> ByMonth(rows, n), raised |-> raised]))
    /\ UNCHANGED <<users, leaves, now, decided, logins, firstToken>>

\* ------------------------------------------------------------------ clock

Tick ==
    /\ now < MaxTime
    /\ resp.op = "none"
    /\ now' = now + 1
    /\ UNCHANGED <<users, leaves, req, resp, decided, logins, firstToken>>

\* ----------------------------------------------------- POST /auth/register

PendingRegisters == Cardinality({ q \in Procs : req[q].op = "register" /\ req[q].pc = "insert" })

\* find_one({"email": ...}) and the check on it, up to the insert_one call.
register_check(r, us) ==
    IF find_user_by_email(us, r.arg.email) # 0 THEN Raise(r, 400)
    ELSE [r EXCEPT !.pc = "insert", !.loc = UserDoc(r.arg)]

\* A register that passes its check is admitted only while the collection has
\* room for its document (the model's bound on the collection).
Register(p) ==
    /\ Free(p)
    /\ \E payload \in RegisterPayloads :
         LET r == register_check([Idle EXCEPT !.op = "register", !.pc = "check", !.arg = payload], users) IN
         /\ r.pc = "insert" => Len(users) + PendingRegisters < MaxUsers
         /\ Step(p, r)
    /\ UNCHANGED <<users, leaves, now, decided, logins, firstToken>>

RegisterInsert(p) ==
    /\ Running(p, "register", "insert")
    /\ users' = Append(users, req[p].loc)
    /\ Step(p, Return(req[p], [ok |-> TRUE]))
    /\ UNCHANGED <<leaves, now, decided, logins, firstToken>>

\* -------------------------------------------------------- POST /auth/login

\* find_one({"email": ...}) and the checks on it, up to the update_one call;
\* the token is made from the document read.
login_check(r, us) ==
    LET i == find_user_by_email(us, r.arg.email) IN
    IF i = 0 THEN Raise(r, 401)
    ELSE IF us[i].password_hash # hash_password(r.arg.password) THEN Raise(r, 401)
    ELSE [r EXCEPT !.pc = "update",
                   !.loc = [id |-> i, token |-> make_token(us[i].email, us[i].password_hash),
                            name |-> us[i].name, email |-> us[i].email, role |-> us[i].role,
                            department |-> us[i].department]]

Login(p) ==
    /\ Free(p)
    /\ \E payload \in LoginPayloads :
         Step(p, login_check([Idle EXCEPT !.op = "login", !.pc = "check", !.arg = payload], users))
    /\ UNCHANGED <<users, leaves, now, decided, logins, firstToken>>

\* Mutant of login_update: the token is returned but not stored.
login_update_not_stored(us, r) == us

\* update_one({"_id": user["_id"]}, {"$set": {"_token": token}}).
login_update(us, r) == [us EXCEPT ![r.loc.id]._token = r.loc.token]

LoginUpdate(p) ==
    /\ Running(p, "login", "update")
    /\ users' = login_update(users, req[p])
    /\ Step(p, Return(req[p], [token |-> req[p].loc.token,
                               user |-> [id |-> ObjectIdStr(req[p].loc.id), name |-> req[p].loc.name,
                                         email |-> req[p].loc.email, role |-> req[p].loc.role,
                                         department |-> req[p].loc.department]]))
    /\ logins' = [logins EXCEPT ![req[p].loc.id] = IF @ < 2 THEN @ + 1 ELSE @]
    /\ firstToken' = [firstToken EXCEPT ![req[p].loc.id] = IF logins[req[p].loc.id] = 0 THEN req[p].loc.token ELSE @]
    /\ UNCHANGED <<leaves, now, decided>>

\* ------------------------------------------------------- the specifications

\* The state after construction: both collections empty.
Init ==
    /\ users = <<>>
    /\ leaves = <<>>
    /\ now = 0
    /\ req = [p \in Procs |-> Idle]
    /\ resp = Idle
    /\ decided = {}
    /\ logins = [i \in 1..MaxUsers |-> 0]
    /\ firstToken = [i \in 1..MaxUsers |-> None]

\* Ann, Bob and Cat have registered and logged in once each.
Staff == <<Ann, Bob, Cat>>

LoggedIn(p) == [UserDoc(p) EXCEPT !._token = make_token(p.email, hash_password(p.password))]

InitLeave ==
    /\ users = [i \in 1..Len(Staff) |-> LoggedIn(Staff[i])]
    /\ leaves = <<>>
    /\ now = 0
    /\ req = [p \in Procs |-> Idle]
    /\ resp = Idle
    /\ decided = {}
    /\ logins = [i \in 1..Len(Staff) |-> 1]
    /\ firstToken = [i \in 1..Len(Staff) |-> LoggedIn(Staff[i])._token]

\* Apply requests alone, over every pair of date texts.
NextApply ==
    \/ \E p \in Procs : ApplyLeave(p)
    \/ \E p \in Procs : ApplyLeaveInsert(p)
    \/ Deliver

\* Apply and decide requests, interleaved at their store calls.
NextLeave ==
    \/ \E p \in Procs : ApplyLeaveBrief(p)
    \/ \E p \in Procs : ApplyLeaveInsert(p)
    \/ \E p \in Procs : DecideLeave(p)
    \/ \E p \in Procs : DecideLeaveFind(p)
    \/ \E p \in Procs : DecideLeaveUpdate(p)
    \/ Deliver

\* The two list requests.
NextList ==
    \/ \E p \in Procs : MyLeaves(p)
    \/ \E p \in Procs : MyLeavesFind(p)
    \/ \E p \in Procs : PendingLeaves(p)
    \/ \E p \in Procs : PendingLeavesFind(p)

NextStats ==
    \/ \E p \in Procs : StatsOverview(p)
    \/ \E p \in Procs : StatsCount(p)
    \/ \E p \in Procs : StatsAggregate(p)
    \/ Tick

NextAuth ==
    \/ \E p \in Procs : Register(p)
    \/ \E p \in Procs : RegisterInsert(p)
    \/ \E p \in Procs : Login(p)
    \/ \E p \in Procs : LoginUpdate(p)

Next == NextAuth \/ NextApply \/ NextLeave \/ NextList \/ NextStats

\* Ann, Bob and Cat apply for leave.
SpecApply == InitLeave /\ [][NextApply]_vars

\* Ann, Bob and Cat apply for leave and decide.
SpecLeave == InitLeave /\ [][NextLeave]_vars

\* Ann, Bob and Cat apply, decide and list.
SpecList == InitLeave /\ [][NextLeave \/ NextList]_vars

\* Dan, a second student, has registered, logged in and applied as well; his
\* own requests are not drawn.
Dan == [name |-> "Dan", email |-> "dan@x", password |-> "pd", role |-> "student", department |-> None]

\* The leave a logged-in user of Staff or Dan stores by applying at time 0.
AppliedBy(i, role, name) ==
    LeaveDoc([id |-> i, name |-> name, role |-> role], ApplyPayload(IsoDate(1), IsoDate(3)), 1, 3, 0)

\* The leave collections the overview is examined on: Ann's pending leave,
\* followed by faculty Bob's or by student Dan's.
StatsStores ==
    { insert_leave(insert_leave(<<>>, AppliedBy(1, "student", "Ann")), AppliedBy(2, "faculty", "Bob")),
      insert_leave(insert_leave(<<>>, AppliedBy(1, "student", "Ann")), AppliedBy(4, "student", "Dan")) }

InitStats ==
    /\ users = [i \in 1..(Len(Staff) + 1) |-> IF i <= Len(Staff) THEN LoggedIn(Staff[i]) ELSE LoggedIn(Dan)]
    /\ leaves \in StatsStores
    /\ now = 0
    /\ req = [p \in Procs |-> Idle]
    /\ resp = Idle
    /\ decided = {}
    /\ logins = [i \in 1..(Len(Staff) + 1) |-> 1]
    /\ firstToken = [i \in 1..(Len(Staff) + 1) |-> users[i]._token]

\* Decide requests alone.
NextDecide ==
    \/ \E p \in Procs : DecideLeave(p)
    \/ \E p \in Procs : DecideLeaveFind(p)
    \/ \E p \in Procs : DecideLeaveUpdate(p)
    \/ Deliver

\* Overview requests interleaved with decide requests, as the clock advances.
SpecStats == InitStats /\ [][NextDecide \/ NextStats]_vars

\* User collections of two registered users, none logged in yet: a student
\* and a faculty member; Ann registered twice by two overlapping register
\* requests; Eve and Ann registered under one email the same way.
GateStores ==
    { <<UserDoc(Ann), UserDoc(Bob)>>, <<UserDoc(Ann), UserDoc(Ann)>>, <<UserDoc(Eve), UserDoc(Ann)>> }

InitGate ==
    /\ users \in GateStores
    /\ leaves = <<>>
    /\ now = 0
    /\ req = [p \in Procs |-> Idle]
    /\ resp = Idle
    /\ decided = {}
    /\ logins = [i \in 1..MaxUsers |-> 0]
    /\ firstToken = [i \in 1..MaxUsers |-> None]

\* Login and the five handlers behind auth_user.
NextGate ==
    \/ \E p \in Procs : Login(p)
    \/ \E p \in Procs : LoginUpdate(p)
    \/ NextLeave
    \/ NextList
    \/ \E p \in Procs : StatsOverview(p)
    \/ \E p \in Procs : StatsCount(p)
    \/ \E p \in Procs : StatsAggregate(p)

\* Registered users log in and use every handler.
SpecGate == InitGate /\ [][NextGate]_vars

\* Ann, Bob and Cat apply and list as the clock advances.
SpecSort ==
    InitLeave /\ [][\/ \E p \in Procs : ApplyLeaveBrief(p)
                    \/ \E p \in Procs : ApplyLeaveInsert(p)
                    \/ NextList
                    \/ Tick
                    \/ Deliver]_vars

\* Register, login and an authenticated request, from empty collections.
SpecAuth ==
    Init /\ [][NextAuth \/ (\E p \in Procs : MyLeaves(p)) \/ (\E p \in Procs : MyLeavesFind(p)) \/ Deliver]_vars

\* The whole service from empty collections.
Spec == Init /\ [][Next]_vars

\* ------------------------------------------------------------------ claims

\* The step just taken answered a request of handler op.
Answered(op) == resp.op = "none" /\ resp'.op = op

\* C1: of the decide requests on one leave, at most one returns ok: no decide
\* returns ok on a leave on which a decide has already returned ok (the other
\* is answered 400).
C1_OnlyOneDecideSucceeds ==
    [][(Answered("decide_leave") /\ resp'.status = 200) => resp'.loc.leave._id \notin decided]_vars

\* The token is the one the first login of a user returned, and that user has
\* logged in again since.
FirstOfTwo(token) == \E u \in DOMAIN logins : logins[u] >= 2 /\ firstToken[u] = token

\* Slot p takes in a request that has passed auth_user.
Authenticated(p) ==
    req[p].pc = "idle" /\ req'[p].pc # "idle" /\ req'[p].op \notin {"register", "login"}

Caller(r) == CHOOSE i \in 1..Len(users) : users[i]._token = r.token

\* A decide request takes its find_one step.
DecideFinds(p) == req[p].op = "decide_leave" /\ req[p].pc = "find" /\ req'[p] # req[p]

\* A decide request is answered on arrival, by its role or id check.
DecideAnsweredOnArrival == Answered("decide_leave") /\ req' = req /\ resp'.status # 401

C4_TerminalLeaveNeverChanges ==
    [][/\ \A i \in 1..Len(leaves) : leaves[i].status # "pending" => leaves'[i] = leaves[i]
       /\ Len(leaves') > Len(leaves) => leaves'[Len(leaves')].status = "pending"]_vars

\* The decision fields of a leave document.
DecisionFields(d) ==
    <<d.status, d.decided_by_id, d.decided_by_name, d.decided_by_role, d.decision_comment, d.decided_at>>

\* All-or-nothing: none while pending, all (but the optional comment) after.
DecisionFieldsAllOrNothing ==
    \A i \in 1..Len(leaves) :
      LET d == leaves[i] IN
      /\ d.status \in {"pending", "approved", "rejected"}
      /\ d.status = "pending" =>
           /\ d.decided_by_id = None /\ d.decided_by_name = None /\ d.decided_by_role = None
           /\ d.decision_comment = None /\ d.decided_at = None
      /\ d.status # "pending" =>
           /\ d.decided_by_id # None /\ d.decided_by_name # None /\ d.decided_by_role # None
           /\ d.decided_at # None

\* Whenever decision fields change, all six become those of one decide
\* request: its body's status and comment, its caller's id, name and role.
DecisionFieldsFromOneRequest ==
    \A i \in 1..Len(leaves) :
      DecisionFields(leaves'[i]) # DecisionFields(leaves[i]) =>
        \E p \in Procs :
          /\ req[p].op = "decide_leave" /\ req[p].pc = "update" /\ req'[p] = Idle
          /\ ObjectId(req[p].arg.leave_id) = leaves[i]._id
          /\ \E t \in 0..now :
               DecisionFields(leaves'[i]) =
                 <<req[p].arg.payload.status, ObjectIdStr(Caller(req[p])),
                   Some(users[Caller(req[p])].name), Some(users[Caller(req[p])].role),
                   req[p].arg.payload.comment, Some(t)>>

\* C5: a pending leave has no decision field set; a decided leave has its
\* decider's id, name, role and the decision time set, all from one request.
C5_DecisionFieldsAllOrNothing ==
    []DecisionFieldsAllOrNothing /\ [][DecisionFieldsFromOneRequest]_vars

\* One leave decided with no comment beside one still pending.
C5_Witness ==
    \E i, j \in 1..Len(leaves) :
      /\ leaves[i].status = "approved" /\ leaves[i].decision_comment = None
      /\ leaves[j].status = "pending"

\* The decide request just answered had read a leave that was pending.
ReadPending(r) ==
    /\ r.op = "decide_leave" /\ r.status \in {200, 400, 403}
    /\ r.user.role \in {"faculty", "admin"}
    /\ r.loc.leave.status = "pending"

\* The permission matrix on the response just sent.
DecideMatrix ==
    /\ (resp.op = "decide_leave" /\ resp.status # 401 /\ users[Caller(resp)].role = "student")
         => resp.status = 403
    /\ (ReadPending(resp) /\ users[Caller(resp)].role = "faculty")
         => resp.status = (IF resp.loc.leave.applicant_role = "student" THEN 200 ELSE 403)
    /\ (ReadPending(resp) /\ users[Caller(resp)].role = "admin")
         => resp.status = 200

\* C6: on a pending leave, decide by a student is answered 403; by faculty it
\* succeeds iff the applicant is a student, else 403; by an admin it succeeds;
\* an answer of 403 leaves the collection unchanged.
C6_DecidePermissionMatrix ==
    []DecideMatrix /\ [][(Answered("decide_leave") /\ resp'.status = 403) => leaves' = leaves]_vars

\* Faculty has just been refused the decision of a faculty member's pending leave.
C6_Witness ==
    /\ ReadPending(resp) /\ resp.status = 403
    /\ resp.user.role = "faculty" /\ resp.loc.leave.applicant_role = "faculty"

\* Both date texts of an apply body parse.
DatesParse(arg) == fromisoformat(arg.start_date) # BadDate /\ fromisoformat(arg.end_date) # BadDate

EndBeforeStart(arg) == DatesParse(arg) /\ fromisoformat(arg.end_date) < fromisoformat(arg.start_date)

ValidDates(arg) == DatesParse(arg) /\ fromisoformat(arg.end_date) >= fromisoformat(arg.start_date)

\* No apply whose end_date is before its start_date is on its way to insert_one.
NoInsertOfEndBeforeStart ==
    \A p \in Procs : (req'[p].op = "apply_leave" /\ req'[p].pc = "insert") => ~EndBeforeStart(req'[p].arg)

\* C7 as stated: an apply with end_date before start_date is answered 400
\* whatever the caller's role, admin included, and creates no leave.
C7_EndBeforeStartIsInvalidInput ==
    [][/\ (Answered("apply_leave") /\ resp'.status # 401 /\ EndBeforeStart(resp'.arg))
            => (resp'.status = 400 /\ leaves' = leaves)
       /\ NoInsertOfEndBeforeStart]_vars

\* C7 amended: an apply with end_date before start_date is answered 400 for a
\* student or faculty caller and 403 for an admin caller (the role is checked
\* first); in every case it creates no leave.
C7_EndBeforeStartFails ==
    [][/\ (Answered("apply_leave") /\ resp'.status # 401 /\ EndBeforeStart(resp'.arg))
            => (/\ resp'.status = (IF users[Caller(resp')].role = "admin" THEN 403 ELSE 400)
                /\ leaves' = leaves)
       /\ NoInsertOfEndBeforeStart]_vars

\* A faculty member's apply with end_date before start_date has just been
\* answered 400.
C7_Witness ==
    /\ resp.op = "apply_leave" /\ resp.status = 400
    /\ resp.user.role = "faculty" /\ EndBeforeStart(resp.arg)

\* An apply request takes its insert_one step.
ApplyInserts(p) == req[p].op = "apply_leave" /\ req[p].pc = "insert" /\ req'[p] # req[p]

\* C8: an apply by an admin is answered 403 and changes no leave; an apply by
\* a student or faculty caller with valid dates adds exactly one leave, with
\* the caller's id, name and role and status pending, returns its id and
\* changes no other leave.
C8_ApplyCreatesOnePendingLeave ==
    [][/\ (Answered("apply_leave") /\ req' = req /\ resp'.status # 401) =>
            /\ leaves' = leaves
            /\ users[Caller(resp')].role = "admin" => resp'.status = 403
            /\ users[Caller(resp')].role \in {"student", "faculty"} =>
                 (resp'.status = 400 /\ ~ValidDates(resp'.arg))
       /\ \A p \in Procs : ApplyInserts(p) =>
            LET c == Caller(req[p])
                n == Len(leaves) + 1
            IN  /\ users[c].role \in {"student", "faculty"}
                /\ ValidDates(req[p].arg)
                /\ Answered("apply_leave") /\ resp'.status = 200
                /\ Len(leaves') = n
                /\ \A i \in 1..Len(leaves) : leaves'[i] = leaves[i]
                /\ leaves'[n].applicant_id = ObjectIdStr(c)
                /\ leaves'[n].applicant_name = users[c].name
                /\ leaves'[n].applicant_role = users[c].role
                /\ leaves'[n].status = "pending"
                /\ \A i \in 1..Len(leaves) : leaves[i]._id # leaves'[n]._id
                /\ resp'.body.id = ObjectIdStr(leaves'[n]._id)
       /\ leaves' # leaves => \E p \in Procs : ApplyInserts(p)]_vars

\* A faculty member's apply has just added a second leave and returned its id.
C8_Witness ==
    /\ resp.op = "apply_leave" /\ resp.status = 200
    /\ Len(leaves) = 2 /\ leaves[2].applicant_role = "faculty"
    /\ resp.body.id = ObjectIdStr(leaves[2]._id)

\* The id texts of the items of a list response.
ItemIds(body) == { body[k].id : k \in 1..Len(body) }

\* C9: my_leaves returns exactly the stored leaves whose applicant_id is the
\* caller's id, each once, for a caller of any role.
C9_MyLeavesExactlyOwn ==
    (resp.op = "my_leaves" /\ resp.status # 401) =>
      LET own == { i \in 1..Len(leaves) : leaves[i].applicant_id = ObjectIdStr(Caller(resp)) } IN
      /\ resp.status = 200
      /\ ItemIds(resp.body) = { ObjectIdStr(leaves[i]._id) : i \in own }
      /\ Len(resp.body) = Cardinality(own)
      /\ \A k \in 1..Len(resp.body) : resp.body[k].applicant_id = ObjectIdStr(Caller(resp))

\* The caller's one leave has just been listed while another user's is stored.
C9_Witness ==
    /\ resp.op = "my_leaves" /\ resp.status = 200
    /\ Len(resp.body) = 1 /\ Len(leaves) = 2

\* C10: pending_leaves is answered 403 for a student; for faculty it returns
\* exactly the pending leaves of student applicants; for an admin exactly the
\* pending leaves.
C10_PendingLeavesScoped ==
    (resp.op = "pending_leaves" /\ resp.status # 401) =>
      LET role == users[Caller(resp)].role
          seen == { i \in 1..Len(leaves) :
                      /\ leaves[i].status = "pending"
                      /\ role = "faculty" => leaves[i].applicant_role = "student" }
      IN  IF role = "student" THEN resp.status = 403
          ELSE /\ resp.status = 200
               /\ ItemIds(resp.body) = { ObjectIdStr(leaves[i]._id) : i \in seen }
               /\ Len(resp.body) = Cardinality(seen)
               /\ \A k \in 1..Len(resp.body) : resp.body[k].status = "pending"

\* Faculty has just been shown a student's pending leave and not the pending
\* leave of a faculty member.
C10_Witness ==
    /\ resp.op = "pending_leaves" /\ resp.status = 200 /\ resp.user.role = "faculty"
    /\ Len(resp.body) = 1
    /\ \E i \in 1..Len(leaves) : leaves[i].status = "pending" /\ leaves[i].applicant_role = "faculty"

\* The leaves in the scope of a caller: a student's own, for faculty those of
\* students, for admin all.
Scope(user) ==
    { i \in 1..Len(leaves) :
        CASE user.role = "student" -> leaves[i].applicant_id = ObjectIdStr(user.id)
          [] user.role = "faculty" -> leaves[i].applicant_role = "student"
          [] user.role = "admin" -> TRUE }

\* Slot p has just run one of the four count queries of an overview.
Counts(p) ==
    /\ req[p].op = "stats_overview" /\ req[p].pc \in {"total", "pending", "approved", "rejected"}
    /\ req'[p] # req[p]

\* C11: each of the four counts of an overview is the number of leaves in the
\* caller's scope (total) or of those with the status counted, and the
\* response returns the four counts as read.
C11_CountsOverCallerScope ==
    [][/\ \A p \in Procs : Counts(p) =>
             /\ Len(req'[p].loc) = Len(req[p].loc) + 1
             /\ req'[p].loc[Len(req'[p].loc)] =
                  Cardinality({ i \in Scope(req[p].user) :
                                  req[p].pc = "total" \/ leaves[i].status = req[p].pc })
       /\ Answered("stats_overview") /\ resp'.status = 200 =>
             /\ Len(resp'.loc) = 4
             /\ resp'.body.total = resp'.loc[1] /\ resp'.body.pending = resp'.loc[2]
             /\ resp'.body.approved = resp'.loc[3] /\ resp'.body.rejected = resp'.loc[4]]_vars

\* Ann's one leave has been approved by faculty Bob and her overview reports
\* total 1, approved 1, pending 0, while Dan's leave is stored as well.
C11_Witness ==
    /\ resp.op = "stats_overview" /\ resp.status = 200 /\ resp.user.role = "student"
    /\ resp.body.total = 1 /\ resp.body.approved = 1 /\ resp.body.pending = 0
    /\ Len(leaves) = 2 /\ leaves[2].applicant_name = "Dan"
    /\ leaves[1].status = "approved" /\ leaves[1].decided_by_role = Some("faculty")

\* The handlers behind Depends(auth_user).
Guarded == {"apply_leave", "my_leaves", "pending_leaves", "decide_leave", "stats_overview"}

\* Some user's currently stored session token equals the token.
Stored(token) == token # None /\ \E i \in 1..Len(users) : users[i]._token = token

\* Some login has returned the token.
Issued(token) == \E u \in DOMAIN logins : logins[u] >= 1 /\ firstToken[u] = token

\* C12: a request to one of the five guarded handlers whose token is absent or
\* is no user's stored token goes no further than auth_user: it is answered 401
\* on arrival, with both stores unchanged, and is never admitted to the
\* handler; and the token login would issue for a registered user is no
\* user's stored token as long as no login has returned it.
C12_UnknownTokenIsUnauthenticated ==
    /\ [](\A i \in 1..Len(users) :
            ~Issued(make_token(users[i].email, users[i].password_hash)) =>
                ~Stored(make_token(users[i].email, users[i].password_hash)))
    /\ [][/\ \A p \in Procs :
               (req[p].pc = "idle" /\ req'[p].pc # "idle" /\ req'[p].op \in Guarded) =>
                   Stored(req'[p].token)
          /\ \A op \in Guarded :
               (Answered(op) /\ req' = req /\ ~Stored(resp'.token)) =>
                   /\ resp'.status = 401 /\ resp'.body = None /\ resp'.arg = None
                   /\ users' = users /\ leaves' = leaves]_vars

\* A decide request presenting the token login would issue for a registered
\* user who has not logged in has been answered 401, while a leave is stored.
C12_Witness ==
    /\ resp.op = "decide_leave" /\ resp.status = 401
    /\ \E i \in 1..Len(users) :
         /\ resp.token = make_token(users[i].email, users[i].password_hash)
         /\ users[i]._token = None /\ ~Issued(resp.token)
    /\ Len(leaves) > 0

\* C13: no two user records have the same email, and a register request whose
\* email is stored when it arrives is answered 400 and adds no user record.
C13_EmailsAreUnique ==
    /\ [](\A i, j \in 1..Len(users) : i # j => users[i].email # users[j].email)
    /\ [][(Answered("register") /\ req' = req
             /\ \E i \in 1..Len(users) : users[i].email = resp'.arg.email) =>
                 resp'.status = 400 /\ users' = users]_vars

\* The stored leaves the leave_id text of a decide request resolves to.
Resolved(text) == { i \in 1..Len(leaves) : leaves[i]._id = ObjectId(text) }

\* C14: a decide request of an authenticated caller whose leave_id resolves to
\* no stored leave is answered 404 and changes nothing; and one whose leave is
\* stored but no longer pending, if it fails, fails with 400 whatever else is
\* wrong with it (NotFound, then InvalidState, then Forbidden).
C14_NotFoundThenInvalidState ==
    [][(Answered("decide_leave") /\ resp'.status \notin {200, 401}) =>
          /\ Resolved(resp'.arg.leave_id) = {} =>
                resp'.status = 404 /\ leaves' = leaves
          /\ \A i \in Resolved(resp'.arg.leave_id) :
                leaves[i].status # "pending" => resp'.status = 400]_vars

\* C15: when the aggregate call or its cursor raises, whether before the first
\* row or after some rows, the overview is answered 200 with the four counts
\* it read and with an empty by_month.
C15_GroupingErrorGivesEmptyByMonth ==
    [][\A p \in Procs :
          (req[p].op = "stats_overview" /\ req[p].pc = "aggregate" /\ req'[p] # req[p]
             /\ resp'.body.raised) =>
              /\ resp'.op = "stats_overview" /\ resp'.status = 200
              /\ resp'.body.total = req[p].loc[1] /\ resp'.body.pending = req[p].loc[2]
              /\ resp'.body.approved = req[p].loc[3] /\ resp'.body.rejected = req[p].loc[4]
              /\ resp'.body.by_month = <<>>]_vars

\* The decided leaves in the scope of a caller.
DecidedInScope(user) == { i \in Scope(user) : leaves[i].status \in {"approved", "rejected"} }

\* The by_month key of the month the decision of leave i falls in.
DecidedMonth(i) == MonthKey(Year(leaves[i].decided_at[1]), Month(leaves[i].decided_at[1]))

C17_ListsNewestFirst ==
    (resp.op \in {"my_leaves", "pending_leaves"} /\ resp.status = 200) =>
        \A a, b \in 1..Len(resp.body) :
            resp.body[a].submitted_at > resp.body[b].submitted_at => a < b

\* A pending list holds two leaves, the later submitted one first.
C17_Witness ==
    /\ resp.op = "pending_leaves" /\ resp.status = 200
    /\ Len(resp.body) = 2
    /\ resp.body[1].submitted_at > resp.body[2].submitted_at

\* C18: every stored leave was applied for by a student or a faculty member;
\* every decided leave was decided by a faculty member or an admin, and a
\* decided leave of a faculty member by an admin.
C18_RolesOfApplicantAndDecider ==
    \A i \in 1..Len(leaves) :
        /\ leaves[i].applicant_role \in {"student", "faculty"}
        /\ leaves[i].status # "pending" =>
              /\ leaves[i].decided_by_role \in {Some("faculty"), Some("admin")}
              /\ leaves[i].applicant_role = "faculty" => leaves[i].decided_by_role = Some("admin")

\* A student's leave decided by a faculty member and a faculty member's leave
\* decided by an admin are stored.
C18_Witness ==
    \E i, j \in 1..Len(leaves) :
        /\ leaves[i].applicant_role = "student" /\ leaves[i].decided_by_role = Some("faculty")
        /\ leaves[j].applicant_role = "faculty" /\ leaves[j].decided_by_role = Some("admin")

\* The sum of the counts of a by_month mapping.
RECURSIVE SumOfCounts(_)
SumOfCounts(bm) == IF bm = <<>> THEN 0 ELSE bm[1][2] + SumOfCounts(Tail(bm))

\* Slot p answers an overview: the grouping query has just run.
Groups(p) == req[p].op = "stats_overview" /\ req[p].pc = "aggregate" /\ req'[p] # req[p]

\* The response is internally consistent.
Consistent(body) ==
    /\ body.total = body.pending + body.approved + body.rejected
    /\ ~body.raised => SumOfCounts(body.by_month) = body.approved + body.rejected

\* The four counts slot p has read are those of the store as it is now.
CountsAreCurrent(p) ==
    /\ req[p].loc[1] = Cardinality(Scope(req[p].user))
    /\ req[p].loc[2] = Cardinality({ i \in Scope(req[p].user) : leaves[i].status = "pending" })
    /\ req[p].loc[3] = Cardinality({ i \in Scope(req[p].user) : leaves[i].status = "approved" })
    /\ req[p].loc[4] = Cardinality({ i \in Scope(req[p].user) : leaves[i].status = "rejected" })

\* C19 as stated: every overview response has total = pending + approved +
\* rejected and, when the grouping did not raise, by_month counts that sum to
\* approved + rejected.
C19_OverviewIsConsistent ==
    [][\A p \in Procs : Groups(p) => Consistent(resp'.body)]_vars

\* C19 amended: an overview response is consistent whenever the four counts it
\* read are still those of the store when its grouping query runs, as they are
\* when no write falls between its queries.
C19_OverviewIsConsistentWhenUndisturbed ==
    [][\A p \in Procs : (Groups(p) /\ CountsAreCurrent(p)) => Consistent(resp'.body)]_vars

\* An overview of two leaves in two months has been answered with the counts
\* of the store as it is, one leave approved and one rejected.
C19_Witness ==
    /\ resp.op = "stats_overview" /\ resp.status = 200 /\ ~resp.body.raised
    /\ resp.body.total = Cardinality(Scope(resp.user))
    /\ resp.body.pending = Cardinality({ i \in Scope(resp.user) : leaves[i].status = "pending" })
    /\ resp.body.approved = Cardinality({ i \in Scope(resp.user) : leaves[i].status = "approved" })
    /\ resp.body.rejected = Cardinality({ i \in Scope(resp.user) : leaves[i].status = "rejected" })
    /\ resp.body.approved = 1 /\ resp.body.rejected = 1
    /\ Len(resp.body.by_month) = 2

\* C20: a token a login of user u returned, presented on a later request,
\* passes auth_user and resolves to the record of u (its id, name and role),
\* not to another user's; and a login returns the id of the record whose token
\* it returns.
C20_TokenResolvesToItsUser ==
    [][/\ \A u \in DOMAIN logins : logins[u] >= 1 =>
             /\ \A p \in Procs :
                  (req[p].pc = "idle" /\ req'[p].pc # "idle" /\ req'[p].op \in Guarded
                     /\ req'[p].token = firstToken[u]) =>
                      req'[p].user = [id |-> u, name |-> users[u].name, role |-> users[u].role]
             /\ \A op \in Guarded :
                  (Answered(op) /\ req' = req /\ resp'.token = firstToken[u]) => resp'.status # 401
       /\ (Answered("login") /\ resp'.status = 200) =>
             \E u \in DOMAIN logins :
                /\ resp'.body.user.id = ObjectIdStr(u) /\ resp'.body.user.role = users[u].role
                /\ logins'[u] >= 1 /\ firstToken'[u] = resp'.body.token]_vars

\* Two users have logged in and a request presenting the second user's token
\* runs as the second user.
C20_Witness ==
    /\ Len(users) = 2 /\ logins[1] >= 1 /\ logins[2] >= 1
    /\ \E p \in Procs :
         /\ req[p].op = "my_leaves" /\ req[p].pc = "find"
         /\ req[p].token = firstToken[2] /\ req[p].user.id = 2
====
